---- MODULE Spec2Model ----
(***************************************************************************)
(* Lobby session coordinator of PlayMatch-gg/backend.                      *)
(*                                                                         *)
(* The persisted state is the users table (current_lobby_id), the lobbies  *)
(* table (host_id, max_players, game_id, deleted_at) and the messages      *)
(* table.  Lobby.Members is not stored: it is the has-many association     *)
(* over users.current_lobby_id.  Every HTTP handler runs in a goroutine of *)
(* its own; one step of the model is one gorm statement outside a          *)
(* transaction, one committed transaction, or one hub call.  Postgres runs *)
(* at READ COMMITTED: what a transaction wrote is seen by the others at    *)
(* its commit, so a transaction's writes are applied in its commit step.   *)
(***************************************************************************)
EXTENDS Integers, Sequences, FiniteSets, TLC

\* Requests issued in one behaviour (each request is one handler call),
\* on top of the requests that built the initial database.
MaxRequests == 2

\* users.id of the registered users; 0 is the zero value of a uint id.
Users == {1, 2, 3}
NoUser == 0
\* NULL current_lobby_id.
NoLobby == 0
\* Handler goroutines that may be in flight at once.
Procs == {1, 2}
\* SSE connections (SubscribeToLobbyEvents requests) of one behaviour.
Streams == {1}
\* SSE connections where the hub is watched under several clients.
Clients == {1, 2}
\* games.id of the catalogued games (lobbies.game_id is a foreign key).
Games == {1}
\* max_players values a LobbyInput may carry (binding:"required,min=2,max=10").
MinPlayers == 2
PlayerLimits == {MinPlayers, MinPlayers + 1}

VARIABLES
    currentLobby,   \* users.current_lobby_id, per user
    lobbies,        \* lobbies table: row i has id i (serial primary key)
    messages,       \* messages table, in insertion order
    procs,          \* per handler goroutine: position and locals
    nreq,           \* requests issued so far
    streams,        \* per event stream: its handler, its channel, what it got
    hub,            \* GlobalHub.lobbies: lobby id -> set of registered clients
    mu              \* GlobalHub.mu: who holds the RWMutex

vars == <<currentLobby, lobbies, messages, procs, nreq, streams, hub, mu>>

LobbyIDs == 1..Len(lobbies)

\* A row a gorm query sees: gorm.Model soft-deletes, deleted_at IS NULL.
Live(l) == l \in LobbyIDs /\ ~lobbies[l].deleted

\* Lobby.Members: has-many over users.current_lobby_id.
Members(l) == {u \in Users : currentLobby[u] = l}

Idle ==
    [pc |-> "idle", op |-> "none", user |-> NoUser, lobby |-> NoLobby,
     target |-> NoUser, game |-> 0, host |-> NoUser, msg |-> 0,
     members |-> {}, sent |-> <<>>, failed |-> FALSE, resp |-> "none"]

\* c.JSON(status, ...): the handler has written its response.
Done(op, u, l, r) ==
    [Idle EXCEPT !.pc = "done", !.op = op, !.user = u, !.lobby = l, !.resp = r]

\* c.JSON(status, ...) at the end of a handler that got past its first check.
Respond(rec, r) ==
    [Idle EXCEPT !.pc = "done", !.op = rec.op, !.user = rec.user,
                 !.lobby = rec.lobby, !.sent = rec.sent,
                 !.failed = rec.failed, !.resp = r]

SystemMessage(l, kind, u) == [lobby |-> l, kind |-> kind, user |-> u]
Event(l, type, u) == [lobby |-> l, type |-> type, user |-> u]

\* A chat row of user u, and the new_message event that carries row id.
TextMessage(l, u) == [lobby |-> l, kind |-> "text", user |-> u]
MessageEvent(l, id, u) ==
    [lobby |-> l, type |-> "new_message", user |-> u, id |-> id]

\* hub.GlobalHub.Broadcast(l, Event{type, payload}) called by the handler
\* whose locals are rec: sent is what the request has handed to the hub.
Broadcast(rec, l, type, u) == [rec EXCEPT !.sent = Append(@, Event(l, type, u))]

\* No SSE connection: the zero stream.
NoStream ==
    [state |-> "none", user |-> NoUser, lobby |-> NoLobby, received |-> <<>>,
     gone |-> FALSE, unsubs |-> 0, closes |-> 0]

\* The zero sync.RWMutex: no writer (Lock) and no readers (RLock).
Unlocked == [writer |-> 0, readers |-> {}]

\* make(map[uint]map[Client]bool): the hub without any lobby.
NoClients == [l \in {} |-> {}]

\* h.lobbies[l]: the clients registered for lobby l.  A stream is registered
\* from Subscribe to Unsubscribe; it is "waiting" while its handler is parked
\* in the select on clientChan and "subscribed" while it is not (before the
\* first select, or writing the SSE frame of the event it just took).
Hub_Clients(l) == IF l \in DOMAIN hub THEN hub[l] ELSE {}

\* Hub.Subscribe(l, s): the lobby's client set is made on first use.
Hub_Subscribe(l, s) ==
    [k \in DOMAIN hub \cup {l} |-> IF k = l THEN Hub_Clients(l) \cup {s}
                                   ELSE hub[k]]

\* Hub.Unsubscribe(l, s) for a client that is not registered: close(client)
\* all the same.
Hub_Unsubscribe_NoCheck(l, s) ==
    [lobbies |-> IF Hub_Clients(l) \ {s} = {}
                 THEN [k \in DOMAIN hub \ {l} |-> hub[k]]
                 ELSE [hub EXCEPT ![l] = @ \ {s}],
     closed |-> TRUE]

\* Hub.Unsubscribe without the delete(h.lobbies, lobbyID) of an empty set.
Hub_Unsubscribe_KeepEmpty(l, s) ==
    IF s \in Hub_Clients(l)
    THEN [lobbies |-> [hub EXCEPT ![l] = @ \ {s}], closed |-> TRUE]
    ELSE [lobbies |-> hub, closed |-> FALSE]

\* Hub.Unsubscribe(l, s): a registered client is deleted from the set and
\* its channel closed, and the set is deleted when it is empty; for a
\* client that is not in the set nothing happens.  The result is the new
\* h.lobbies and whether close(client) ran.
Hub_Unsubscribe(l, s) ==
    IF s \in Hub_Clients(l)
    THEN [lobbies |-> IF hub[l] = {s}
                      THEN [k \in DOMAIN hub \ {l} |-> hub[k]]
                      ELSE [hub EXCEPT ![l] = @ \ {s}],
          closed |-> TRUE]
    ELSE [lobbies |-> hub, closed |-> FALSE]

\* A Broadcast that gives up at a client that cannot take the event: nobody
\* gets it unless every client of the lobby is receiving.
Hub_Broadcast_AllOrNone(l, e) ==
    [s \in DOMAIN streams |->
        IF s \in Hub_Clients(l)
           /\ \A r \in Hub_Clients(l) : streams[r].state = "waiting"
        THEN [streams[s] EXCEPT !.state = "subscribed",
                                !.received = Append(@, e)]
        ELSE streams[s]]

\* Hub.Broadcast(l, e): for each client of l a send under select/default.
\* clientChan is unbuffered (make(hub.Client)), so the send goes through
\* only to a handler parked in its select, and is dropped otherwise.
Hub_Broadcast(l, e) ==
    [s \in DOMAIN streams |->
        IF s \in Hub_Clients(l) /\ streams[s].state = "waiting"
        THEN [streams[s] EXCEPT !.state = "subscribed",
                                !.received = Append(@, e)]
        ELSE streams[s]]

\* When user u joined lobby l: the row of its latest "created" or "joined"
\* system message, after every row when it has none yet.
JoinedAt(u, l) ==
    LET I == {i \in 1..Len(messages) :
                /\ messages[i].lobby = l
                /\ messages[i].user = u
                /\ messages[i].kind \in {"created", "joined"}}
    IN IF I = {} THEN Len(messages) + 1
       ELSE CHOOSE i \in I : \A j \in I : j <= i

\* A request takes the lowest free goroutine slot (slots are anonymous).
CanStart(p) ==
    /\ nreq < MaxRequests
    /\ procs[p].pc = "idle"
    /\ \A q \in Procs : q < p => procs[q].pc # "idle"

\* The database after CreateLobby by user 1 (max_players mx, game g) and
\* JoinLobby by the other users of M in the order of their ids, each
\* request run to its response before the next starts.
InitLobby(M, mx, g) ==
    /\ currentLobby = [u \in Users |-> IF u \in M THEN 1 ELSE NoLobby]
    /\ lobbies = <<[host |-> 1, maxPlayers |-> mx, game |-> g,
                    deleted |-> FALSE]>>
    /\ messages = [i \in 1..Cardinality(M) |->
                     IF i = 1 THEN SystemMessage(1, "created", 1)
                     ELSE SystemMessage(1, "joined", i)]

\* The server starts (main.go: database.Connect, hub.NewHub) with no
\* request in flight, against the database earlier requests left: empty,
\* or holding one lobby.
Init ==
    /\ procs = [p \in Procs |-> Idle]
    /\ nreq = 0
    /\ streams = [s \in Streams |-> NoStream]
    /\ hub = NoClients
    /\ mu = Unlocked
    /\ \/ /\ currentLobby = [u \in Users |-> NoLobby]
          /\ lobbies = <<>>
          /\ messages = <<>>
       \/ \E n \in 1..Cardinality(Users), mx \in PlayerLimits, g \in Games :
             n <= mx /\ InitLobby(1..n, mx, g)

\* The handler returned; its goroutine slot is free again.
Return(p) ==
    /\ procs[p].pc = "done"
    /\ procs' = [procs EXCEPT ![p] = Idle]
    /\ UNCHANGED <<currentLobby, lobbies, messages, nreq, streams, hub, mu>>

----------------------------------------------------------------------------
(* CreateLobby *)

\* CreateLobby without the user.CurrentLobbyID != nil check.
CreateLobby_ReadUser_NoCheck(p, u) ==
    /\ CanStart(p)
    /\ nreq' = nreq + 1
    /\ procs' = [procs EXCEPT ![p] =
         [Idle EXCEPT !.pc = "create_tx", !.op = "CreateLobby", !.user = u]]
    /\ UNCHANGED <<currentLobby, lobbies, messages, streams, hub, mu>>

\* First(&user): 409 when the user already has a current lobby.
CreateLobby_ReadUser(p, u) ==
    /\ CanStart(p)
    /\ nreq' = nreq + 1
    /\ procs' = [procs EXCEPT ![p] =
         IF currentLobby[u] # NoLobby
         THEN Done("CreateLobby", u, NoLobby, "Conflict")
         ELSE [Idle EXCEPT !.pc = "create_tx", !.op = "CreateLobby",
                           !.user = u]]
    /\ UNCHANGED <<currentLobby, lobbies, messages, streams, hub, mu>>

\* ShouldBindJSON(&input), then tx.Create(&lobby);
\* user.CurrentLobbyID = &lobby.ID; tx.Save(&user); tx.Commit()
CreateLobby_Tx(p, mx, g) ==
    /\ procs[p].pc = "create_tx"
    /\ LET id == Len(lobbies) + 1
           u  == procs[p].user
       IN /\ lobbies' = Append(lobbies,
                 [host |-> u, maxPlayers |-> mx, game |-> g,
                  deleted |-> FALSE])
          /\ currentLobby' = [currentLobby EXCEPT ![u] = id]
          /\ procs' = [procs EXCEPT ![p].pc = "create_msg", ![p].lobby = id]
    /\ UNCHANGED <<messages, nreq, streams, hub, mu>>

\* database.DB.Create(&systemMessage): not in the transaction.
CreateLobby_SystemMessage(p) ==
    /\ procs[p].pc = "create_msg"
    /\ messages' = Append(messages,
          SystemMessage(procs[p].lobby, "created", procs[p].user))
    /\ procs' = [procs EXCEPT ![p].pc = "create_bcast"]
    /\ UNCHANGED <<currentLobby, lobbies, nreq, streams, hub, mu>>

\* Broadcast lobby_created, then 201.
CreateLobby_Broadcast(p) ==
    /\ procs[p].pc = "create_bcast"
    /\ procs' = [procs EXCEPT ![p] =
          Respond(Broadcast(@, @.lobby, "lobby_created", @.user), "Created")]
    /\ streams' = Hub_Broadcast(procs[p].lobby,
          Event(procs[p].lobby, "lobby_created", procs[p].user))
    /\ UNCHANGED <<currentLobby, lobbies, messages, nreq, hub, mu>>

----------------------------------------------------------------------------
(* JoinLobby *)

\* JoinLobby without the user.CurrentLobbyID != nil check.
JoinLobby_ReadUser_NoCheck(p, u, l) ==
    /\ CanStart(p)
    /\ nreq' = nreq + 1
    /\ procs' = [procs EXCEPT ![p] =
         [Idle EXCEPT !.pc = "join_lobby", !.op = "JoinLobby",
                      !.user = u, !.lobby = l]]
    /\ UNCHANGED <<currentLobby, lobbies, messages, streams, hub, mu>>

\* First(&user): 409 when the user already has a current lobby.
JoinLobby_ReadUser(p, u, l) ==
    /\ CanStart(p)
    /\ nreq' = nreq + 1
    /\ procs' = [procs EXCEPT ![p] =
         IF currentLobby[u] # NoLobby
         THEN Done("JoinLobby", u, l, "Conflict")
         ELSE [Idle EXCEPT !.pc = "join_lobby", !.op = "JoinLobby",
                           !.user = u, !.lobby = l]]
    /\ UNCHANGED <<currentLobby, lobbies, messages, streams, hub, mu>>

\* JoinLobby with len(lobby.Members) > lobby.MaxPlayers as its capacity test.
JoinLobby_ReadLobby_OffByOne(p) ==
    /\ procs[p].pc = "join_lobby"
    /\ LET l == procs[p].lobby
           u == procs[p].user
       IN procs' = [procs EXCEPT ![p] =
            IF ~Live(l) THEN Done("JoinLobby", u, l, "NotFound")
            ELSE IF Cardinality(Members(l)) > lobbies[l].maxPlayers
                 THEN Done("JoinLobby", u, l, "LobbyFull")
                 ELSE [@ EXCEPT !.pc = "join_update"]]
    /\ UNCHANGED <<currentLobby, lobbies, messages, nreq, streams, hub, mu>>

\* Preload("Members").First(&lobby, lobbyID): 404, or 409 when full.
JoinLobby_ReadLobby(p) ==
    /\ procs[p].pc = "join_lobby"
    /\ LET l == procs[p].lobby
           u == procs[p].user
       IN procs' = [procs EXCEPT ![p] =
            IF ~Live(l) THEN Done("JoinLobby", u, l, "NotFound")
            ELSE IF Cardinality(Members(l)) >= lobbies[l].maxPlayers
                 THEN Done("JoinLobby", u, l, "LobbyFull")
                 ELSE [@ EXCEPT !.pc = "join_update"]]
    /\ UNCHANGED <<currentLobby, lobbies, messages, nreq, streams, hub, mu>>

\* DB.Model(&user).Update("current_lobby_id", &lobbyIDUint)
JoinLobby_Update(p) ==
    /\ procs[p].pc = "join_update"
    /\ currentLobby' = [currentLobby EXCEPT ![procs[p].user] = procs[p].lobby]
    /\ procs' = [procs EXCEPT ![p].pc = "join_msg"]
    /\ UNCHANGED <<lobbies, messages, nreq, streams, hub, mu>>

\* database.DB.Create(&systemMessage)
JoinLobby_SystemMessage(p) ==
    /\ procs[p].pc = "join_msg"
    /\ messages' = Append(messages,
          SystemMessage(procs[p].lobby, "joined", procs[p].user))
    /\ procs' = [procs EXCEPT ![p].pc = "join_bcast"]
    /\ UNCHANGED <<currentLobby, lobbies, nreq, streams, hub, mu>>

\* A JoinLobby that answers 500 when the hub dropped its event for a client.
JoinLobby_Broadcast_ReportsDrop(p) ==
    /\ procs[p].pc = "join_bcast"
    /\ procs' = [procs EXCEPT ![p] =
          Respond(Broadcast(@, @.lobby, "user_joined", @.user),
                  IF \A s \in Hub_Clients(procs[p].lobby) :
                        streams[s].state = "waiting"
                  THEN "OK" ELSE "InternalError")]
    /\ streams' = Hub_Broadcast(procs[p].lobby,
          Event(procs[p].lobby, "user_joined", procs[p].user))
    /\ UNCHANGED <<currentLobby, lobbies, messages, nreq, hub, mu>>

\* Broadcast user_joined, then 200 "Joined lobby successfully".
JoinLobby_Broadcast(p) ==
    /\ procs[p].pc = "join_bcast"
    /\ procs' = [procs EXCEPT ![p] =
          Respond(Broadcast(@, @.lobby, "user_joined", @.user), "OK")]
    /\ streams' = Hub_Broadcast(procs[p].lobby,
          Event(procs[p].lobby, "user_joined", procs[p].user))
    /\ UNCHANGED <<currentLobby, lobbies, messages, nreq, hub, mu>>

----------------------------------------------------------------------------
(* LeaveLobby *)

\* LeaveLobby without the user.CurrentLobbyID == nil test.
LeaveLobby_ReadUser_NoCheck(p, u) ==
    /\ CanStart(p)
    /\ nreq' = nreq + 1
    /\ procs' = [procs EXCEPT ![p] =
          [Idle EXCEPT !.pc = "leave_commit", !.op = "LeaveLobby",
                       !.user = u, !.lobby = currentLobby[u]]]
    /\ UNCHANGED <<currentLobby, lobbies, messages, streams, hub, mu>>

\* Preload("CurrentLobby.Members").First(&user): 404 without a current lobby.
\* A current lobby whose row is soft-deleted preloads as nil: the handler
\* begins its transaction and panics on lobby.ID, nothing is committed.
LeaveLobby_ReadUser(p, u) ==
    /\ CanStart(p)
    /\ nreq' = nreq + 1
    /\ LET l == currentLobby[u]
       IN procs' = [procs EXCEPT ![p] =
            IF l = NoLobby THEN Done("LeaveLobby", u, NoLobby, "NotFound")
            ELSE IF ~Live(l) THEN Done("LeaveLobby", u, l, "Panic")
            ELSE [Idle EXCEPT
                    !.pc = IF Members(l) = {u} THEN "leave_deleted"
                           ELSE IF lobbies[l].host = u THEN "leave_host"
                           ELSE "leave_commit",
                    !.op = "LeaveLobby", !.user = u, !.lobby = l,
                    !.host = lobbies[l].host, !.members = Members(l)]]
    /\ UNCHANGED <<currentLobby, lobbies, messages, streams, hub, mu>>

\* len(lobby.Members) == 1: tx.Delete(&lobby) is pending, and lobby_deleted
\* is broadcast before tx.Commit().
LeaveLobby_BroadcastDeleted(p) ==
    /\ procs[p].pc = "leave_deleted"
    /\ procs' = [procs EXCEPT ![p] =
          [Broadcast(@, @.lobby, "lobby_deleted", NoUser) EXCEPT
             !.pc = "leave_commit"]]
    /\ streams' = Hub_Broadcast(procs[p].lobby,
          Event(procs[p].lobby, "lobby_deleted", NoUser))
    /\ UNCHANGED <<currentLobby, lobbies, messages, nreq, hub, mu>>

\* A host's LeaveLobby that announces lobby_deleted as well as host_changed.
LeaveLobby_BroadcastHost_AndDeleted(p) ==
    /\ procs[p].pc = "leave_host"
    /\ \E nextHost \in procs[p].members \ {procs[p].user} :
          /\ procs' = [procs EXCEPT ![p] =
                [Broadcast(Broadcast(@, @.lobby, "lobby_deleted", NoUser),
                           @.lobby, "host_changed", nextHost) EXCEPT
                   !.pc = "leave_commit", !.target = nextHost]]
          /\ streams' = Hub_Broadcast(procs[p].lobby,
                Event(procs[p].lobby, "host_changed", nextHost))
    /\ UNCHANGED <<currentLobby, lobbies, messages, nreq, hub, mu>>

\* lobby.HostID == user.ID: nextHost is the first of lobby.Members (in the
\* order the query returned them, which no ORDER BY fixes) that is not the
\* user; the host_id update is pending, and host_changed is broadcast
\* before tx.Commit().
LeaveLobby_BroadcastHost(p) ==
    /\ procs[p].pc = "leave_host"
    /\ \E nextHost \in procs[p].members \ {procs[p].user} :
          /\ procs' = [procs EXCEPT ![p] =
                [Broadcast(@, @.lobby, "host_changed", nextHost) EXCEPT
                   !.pc = "leave_commit", !.target = nextHost]]
          /\ streams' = Hub_Broadcast(procs[p].lobby,
                Event(procs[p].lobby, "host_changed", nextHost))
    /\ UNCHANGED <<currentLobby, lobbies, messages, nreq, hub, mu>>

\* The rows tx.Commit() makes visible: current_lobby_id = NULL, the
\* "left" message, then the soft delete or the new host_id and its message
\* (both UPDATEs carry deleted_at IS NULL).
LeaveLobby_Commit(p) ==
    /\ procs[p].pc = "leave_commit"
    /\ LET u == procs[p].user
           l == procs[p].lobby
           last == procs[p].members = {u}
           nextHost == procs[p].target
           left == SystemMessage(l, "left", u)
       IN /\ currentLobby' = [currentLobby EXCEPT ![u] = NoLobby]
          /\ lobbies' =
               IF ~Live(l) THEN lobbies
               ELSE IF last THEN [lobbies EXCEPT ![l].deleted = TRUE]
               ELSE IF nextHost # NoUser
                    THEN [lobbies EXCEPT ![l].host = nextHost]
                    ELSE lobbies
          /\ messages' =
               IF ~last /\ nextHost # NoUser
               THEN messages \o <<left, SystemMessage(l, "host", nextHost)>>
               ELSE Append(messages, left)
    /\ procs' = [procs EXCEPT ![p].pc = "leave_bcast"]
    /\ UNCHANGED <<nreq, streams, hub, mu>>

\* A LeaveLobby whose last Broadcast needs a client set: without one it
\* makes an empty set for the lobby and answers 500.
LeaveLobby_BroadcastLeft_NeedsClients(p) ==
    /\ procs[p].pc = "leave_bcast"
    /\ procs' = [procs EXCEPT ![p] =
          Respond(Broadcast(@, @.lobby, "user_left", @.user),
                  IF procs[p].lobby \in DOMAIN hub THEN "OK"
                  ELSE "InternalError")]
    /\ streams' = Hub_Broadcast(procs[p].lobby,
          Event(procs[p].lobby, "user_left", procs[p].user))
    /\ hub' = [k \in DOMAIN hub \cup {procs[p].lobby} |-> Hub_Clients(k)]
    /\ UNCHANGED <<currentLobby, lobbies, messages, nreq, mu>>

\* Broadcast user_left, then 200 "Left lobby successfully".
LeaveLobby_BroadcastLeft(p) ==
    /\ procs[p].pc = "leave_bcast"
    /\ procs' = [procs EXCEPT ![p] =
          Respond(Broadcast(@, @.lobby, "user_left", @.user), "OK")]
    /\ streams' = Hub_Broadcast(procs[p].lobby,
          Event(procs[p].lobby, "user_left", procs[p].user))
    /\ UNCHANGED <<currentLobby, lobbies, messages, nreq, hub, mu>>

----------------------------------------------------------------------------
(* GetLobbyByID *)

\* Preload(...).First(&lobby, lobbyID): 200 or 404.
GetLobbyByID(p, l) ==
    /\ CanStart(p)
    /\ nreq' = nreq + 1
    /\ procs' = [procs EXCEPT ![p] =
          Done("GetLobbyByID", NoUser, l, IF Live(l) THEN "OK" ELSE "NotFound")]
    /\ UNCHANGED <<currentLobby, lobbies, messages, streams, hub, mu>>

----------------------------------------------------------------------------
(* UpdateLobby *)

UpdateLobby_ReadLobby_AnyCaller(p, u, l) ==
    /\ CanStart(p)
    /\ nreq' = nreq + 1
    /\ procs' = [procs EXCEPT ![p] =
         IF ~Live(l) THEN Done("UpdateLobby", u, l, "NotFound")
         ELSE [Idle EXCEPT !.pc = "update_save", !.op = "UpdateLobby",
                           !.user = u, !.lobby = l, !.host = lobbies[l].host,
                           !.game = lobbies[l].game]]
    /\ UNCHANGED <<currentLobby, lobbies, messages, streams, hub, mu>>

\* First(&lobby, lobbyID): 404; lobby.HostID != userID: 403.  oldGame is
\* the game of the row as read.
UpdateLobby_ReadLobby(p, u, l) ==
    /\ CanStart(p)
    /\ nreq' = nreq + 1
    /\ procs' = [procs EXCEPT ![p] =
         IF ~Live(l) THEN Done("UpdateLobby", u, l, "NotFound")
         ELSE IF lobbies[l].host # u THEN Done("UpdateLobby", u, l, "Forbidden")
         ELSE [Idle EXCEPT !.pc = "update_save", !.op = "UpdateLobby",
                           !.user = u, !.lobby = l, !.host = lobbies[l].host,
                           !.game = lobbies[l].game]]
    /\ UNCHANGED <<currentLobby, lobbies, messages, streams, hub, mu>>

\* ShouldBindJSON(&input), then database.DB.Save(&lobby): UPDATE of every
\* column of the row as the handler holds it (host_id as read, deleted_at
\* NULL as read).  When the UPDATE matches no row (the row was
\* soft-deleted meanwhile) gorm's Save may fall back to
\* INSERT .. ON CONFLICT DO UPDATE, which writes the row back; whether it
\* does depends on the gorm release, so both outcomes are possible.
UpdateLobby_Save(p, mx, g) ==
    /\ procs[p].pc = "update_save"
    /\ LET l == procs[p].lobby
           row == [host |-> procs[p].host, maxPlayers |-> mx, game |-> g,
                   deleted |-> FALSE]
       IN \/ lobbies' = [lobbies EXCEPT ![l] = row]
          \/ ~Live(l) /\ lobbies' = lobbies
    /\ procs' = [procs EXCEPT ![p].pc = "update_reload"]
    /\ UNCHANGED <<currentLobby, messages, nreq, streams, hub, mu>>

\* Preload("Game")...First(&lobby, lobby.ID); oldGame.ID != lobby.Game.ID
\* decides the system message.  lobby.Game stays zero when the row is gone.
UpdateLobby_Reload(p) ==
    /\ procs[p].pc = "update_reload"
    /\ LET l == procs[p].lobby
           newGame == IF Live(l) THEN lobbies[l].game ELSE 0
       IN procs' = [procs EXCEPT
            ![p].pc = IF procs[p].game # newGame THEN "update_msg"
                      ELSE "update_bcast"]
    /\ UNCHANGED <<currentLobby, lobbies, messages, nreq, streams, hub, mu>>

\* database.DB.Create(&systemMessage) "Lobby game changed", then Broadcast
\* lobby_game_changed.
UpdateLobby_SystemMessage(p) ==
    /\ procs[p].pc = "update_msg"
    /\ messages' = Append(messages, SystemMessage(procs[p].lobby, "game", NoUser))
    /\ procs' = [procs EXCEPT ![p].pc = "update_bcast_game"]
    /\ UNCHANGED <<currentLobby, lobbies, nreq, streams, hub, mu>>

UpdateLobby_BroadcastGame(p) ==
    /\ procs[p].pc = "update_bcast_game"
    /\ procs' = [procs EXCEPT ![p] =
          [Broadcast(@, @.lobby, "lobby_game_changed", NoUser) EXCEPT
             !.pc = "update_bcast"]]
    /\ streams' = Hub_Broadcast(procs[p].lobby,
          Event(procs[p].lobby, "lobby_game_changed", NoUser))
    /\ UNCHANGED <<currentLobby, lobbies, messages, nreq, hub, mu>>

\* Broadcast lobby_updated, then 200.
UpdateLobby_Broadcast(p) ==
    /\ procs[p].pc = "update_bcast"
    /\ procs' = [procs EXCEPT ![p] =
          Respond(Broadcast(@, @.lobby, "lobby_updated", NoUser), "OK")]
    /\ streams' = Hub_Broadcast(procs[p].lobby,
          Event(procs[p].lobby, "lobby_updated", NoUser))
    /\ UNCHANGED <<currentLobby, lobbies, messages, nreq, hub, mu>>

----------------------------------------------------------------------------
(* KickMember *)

\* c.JSON(status, ...) of a refused KickMember(l, t) by user u.
KickDone(u, l, t, r) == [Done("KickMember", u, l, r) EXCEPT !.target = t]

\* KickMember without the lobby.HostID != hostID test.
KickMember_ReadLobby_AnyCaller(p, u, l, t) ==
    /\ CanStart(p)
    /\ nreq' = nreq + 1
    /\ procs' = [procs EXCEPT ![p] =
         IF ~Live(l) THEN KickDone(u, l, t, "NotFound")
         ELSE IF lobbies[l].host = t THEN KickDone(u, l, t, "BadRequest")
         ELSE [Idle EXCEPT !.pc = "kick_find", !.op = "KickMember",
                           !.user = u, !.lobby = l, !.target = t]]
    /\ UNCHANGED <<currentLobby, lobbies, messages, streams, hub, mu>>

\* First(&lobby, lobbyID): 404; caller is not the host: 403; the target is
\* the host: 400.
KickMember_ReadLobby(p, u, l, t) ==
    /\ CanStart(p)
    /\ nreq' = nreq + 1
    /\ procs' = [procs EXCEPT ![p] =
         IF ~Live(l) THEN KickDone(u, l, t, "NotFound")
         ELSE IF lobbies[l].host # u THEN KickDone(u, l, t, "Forbidden")
         ELSE IF lobbies[l].host = t THEN KickDone(u, l, t, "BadRequest")
         ELSE [Idle EXCEPT !.pc = "kick_find", !.op = "KickMember",
                           !.user = u, !.lobby = l, !.target = t]]
    /\ UNCHANGED <<currentLobby, lobbies, messages, streams, hub, mu>>

\* Where("id = ? AND current_lobby_id = ?").First(&memberToKick): 404.
KickMember_FindMember(p) ==
    /\ procs[p].pc = "kick_find"
    /\ procs' = [procs EXCEPT ![p] =
         IF currentLobby[procs[p].target] # procs[p].lobby
         THEN KickDone(procs[p].user, procs[p].lobby, procs[p].target,
                       "NotFound")
         ELSE [@ EXCEPT !.pc = "kick_update"]]
    /\ UNCHANGED <<currentLobby, lobbies, messages, nreq, streams, hub, mu>>

\* KickMember clearing current_lobby_id of every member of the lobby.
KickMember_Update_AllMembers(p) ==
    /\ procs[p].pc = "kick_update"
    /\ currentLobby' = [u \in Users |->
          IF currentLobby[u] = procs[p].lobby THEN NoLobby
          ELSE currentLobby[u]]
    /\ procs' = [procs EXCEPT ![p].pc = "kick_msg"]
    /\ UNCHANGED <<lobbies, messages, nreq, streams, hub, mu>>

\* DB.Model(&memberToKick).Update("current_lobby_id", nil)
KickMember_Update(p) ==
    /\ procs[p].pc = "kick_update"
    /\ currentLobby' = [currentLobby EXCEPT ![procs[p].target] = NoLobby]
    /\ procs' = [procs EXCEPT ![p].pc = "kick_msg"]
    /\ UNCHANGED <<lobbies, messages, nreq, streams, hub, mu>>

\* database.DB.Create(&systemMessage)
KickMember_SystemMessage(p) ==
    /\ procs[p].pc = "kick_msg"
    /\ messages' = Append(messages,
          SystemMessage(procs[p].lobby, "kicked", procs[p].target))
    /\ procs' = [procs EXCEPT ![p].pc = "kick_bcast"]
    /\ UNCHANGED <<currentLobby, lobbies, nreq, streams, hub, mu>>

\* Broadcast user_kicked, then 200 "Member kicked successfully".
KickMember_Broadcast(p) ==
    /\ procs[p].pc = "kick_bcast"
    /\ procs' = [procs EXCEPT ![p] =
          Respond(Broadcast(@, @.lobby, "user_kicked", @.target), "OK")]
    /\ streams' = Hub_Broadcast(procs[p].lobby,
          Event(procs[p].lobby, "user_kicked", procs[p].target))
    /\ UNCHANGED <<currentLobby, lobbies, messages, nreq, hub, mu>>

----------------------------------------------------------------------------
(* PostMessage *)

\* Preload("CurrentLobby").First(&user): 403 unless the user's
\* current_lobby_id is the lobby of the path.
PostMessage_ReadUser(p, u, l) ==
    /\ CanStart(p)
    /\ nreq' = nreq + 1
    /\ procs' = [procs EXCEPT ![p] =
         IF currentLobby[u] # l THEN Done("PostMessage", u, l, "Forbidden")
         ELSE [Idle EXCEPT !.pc = "post_create", !.op = "PostMessage",
                           !.user = u, !.lobby = l]]
    /\ UNCHANGED <<currentLobby, lobbies, messages, streams, hub, mu>>

\* database.DB.Create(&newMessage): the row gets the next id.
PostMessage_Create(p) ==
    /\ procs[p].pc = "post_create"
    /\ messages' = Append(messages, TextMessage(procs[p].lobby, procs[p].user))
    /\ procs' = [procs EXCEPT ![p].pc = "post_bcast",
                              ![p].msg = Len(messages) + 1]
    /\ UNCHANGED <<currentLobby, lobbies, nreq, streams, hub, mu>>

\* A PostMessage whose Broadcast sends with a plain, blocking channel send:
\* it goes through only when every client of the lobby is receiving.
PostMessage_Broadcast_Blocking(p) ==
    /\ procs[p].pc = "post_bcast"
    /\ \A s \in Hub_Clients(procs[p].lobby) : streams[s].state = "waiting"
    /\ LET e == MessageEvent(procs[p].lobby, procs[p].msg, procs[p].user)
       IN /\ procs' = [procs EXCEPT ![p] =
                Respond([@ EXCEPT !.sent = Append(@, e)], "Created")]
          /\ streams' = Hub_Broadcast(procs[p].lobby, e)
    /\ UNCHANGED <<currentLobby, lobbies, messages, nreq, hub, mu>>

\* Broadcast new_message, then 201.
PostMessage_Broadcast(p) ==
    /\ procs[p].pc = "post_bcast"
    /\ LET e == MessageEvent(procs[p].lobby, procs[p].msg, procs[p].user)
       IN /\ procs' = [procs EXCEPT ![p] =
                Respond([@ EXCEPT !.sent = Append(@, e)], "Created")]
          /\ streams' = Hub_Broadcast(procs[p].lobby, e)
    /\ UNCHANGED <<currentLobby, lobbies, messages, nreq, hub, mu>>

\* GetMessages: 403 unless the user's current_lobby_id is the lobby of the
\* path, else the page of the lobby's messages; it writes nothing.
GetMessages(p, u, l) ==
    /\ CanStart(p)
    /\ nreq' = nreq + 1
    /\ procs' = [procs EXCEPT ![p] =
          Done("GetMessages", u, l,
               IF currentLobby[u] # l THEN "Forbidden" ELSE "OK")]
    /\ UNCHANGED <<currentLobby, lobbies, messages, streams, hub, mu>>

----------------------------------------------------------------------------
(* SubscribeToLobbyEvents *)

\* SubscribeToLobbyEvents without the membership test.
SubscribeToLobbyEvents_ReadUser_AnyUser(s, u, l) ==
    /\ streams[s].state = "none"
    /\ \A r \in DOMAIN streams : r < s => streams[r].state # "none"
    /\ streams' = [streams EXCEPT ![s] =
         [NoStream EXCEPT !.state = "authorized", !.user = u, !.lobby = l]]
    /\ UNCHANGED <<currentLobby, lobbies, messages, procs, nreq, hub, mu>>

\* Preload("CurrentLobby").First(&user): 403 unless the user's
\* current_lobby_id is the lobby of the path.
SubscribeToLobbyEvents_ReadUser(s, u, l) ==
    /\ streams[s].state = "none"
    /\ \A r \in DOMAIN streams : r < s => streams[r].state # "none"
    /\ streams' = [streams EXCEPT ![s] =
         IF currentLobby[u] # l THEN [NoStream EXCEPT !.state = "refused"]
         ELSE [NoStream EXCEPT !.state = "authorized",
                               !.user = u, !.lobby = l]]
    /\ UNCHANGED <<currentLobby, lobbies, messages, procs, nreq, hub, mu>>

\* clientChan := make(hub.Client); hub.GlobalHub.Subscribe(lobbyID, clientChan)
SubscribeToLobbyEvents_Subscribe(s) ==
    /\ streams[s].state = "authorized"
    /\ hub' = Hub_Subscribe(streams[s].lobby, s)
    /\ streams' = [streams EXCEPT ![s].state = "subscribed"]
    /\ UNCHANGED <<currentLobby, lobbies, messages, procs, nreq, mu>>

\* c.Stream calls the step function, which parks in the select.
SubscribeToLobbyEvents_Select(s) ==
    /\ streams[s].state = "subscribed"
    /\ ~streams[s].gone
    /\ streams' = [streams EXCEPT ![s].state = "waiting"]
    /\ UNCHANGED <<currentLobby, lobbies, messages, procs, nreq, hub, mu>>

\* The client goes away: c.Request.Context() is done.
SubscribeToLobbyEvents_Disconnect(s) ==
    /\ streams[s].state \in {"subscribed", "waiting"}
    /\ ~streams[s].gone
    /\ streams' = [streams EXCEPT ![s].gone = TRUE]
    /\ UNCHANGED <<currentLobby, lobbies, messages, procs, nreq, hub, mu>>

\* hub.GlobalHub.Unsubscribe(l, s) called for stream s: what it does to the
\* stream's record.
Unsubscribed(s, r) ==
    [streams EXCEPT ![s].state = "closed",
                    ![s].unsubs = @ + 1,
                    ![s].closes = IF r.closed THEN @ + 1 ELSE @]

\* A stream handler that sees the cancellation only while it is parked in
\* its select.
SubscribeToLobbyEvents_Unsubscribe_OnlyParked(s) ==
    /\ streams[s].state = "waiting"
    /\ streams[s].gone
    /\ LET r == Hub_Unsubscribe(streams[s].lobby, s)
       IN /\ hub' = r.lobbies
          /\ streams' = Unsubscribed(s, r)
    /\ UNCHANGED <<currentLobby, lobbies, messages, procs, nreq, mu>>

\* case <-c.Request.Context().Done(): the step function returns false (or
\* c.Stream sees the closed connection after a write), c.Stream returns and
\* the deferred Unsubscribe runs.
SubscribeToLobbyEvents_Unsubscribe(s) ==
    /\ streams[s].state \in {"subscribed", "waiting"}
    /\ streams[s].gone
    /\ LET r == Hub_Unsubscribe(streams[s].lobby, s)
       IN /\ hub' = r.lobbies
          /\ streams' = Unsubscribed(s, r)
    /\ UNCHANGED <<currentLobby, lobbies, messages, procs, nreq, mu>>

----------------------------------------------------------------------------

Next ==
    \E p \in Procs :
        \/ Return(p)
        \/ \E u \in Users : CreateLobby_ReadUser(p, u)
        \/ \E mx \in PlayerLimits, g \in Games : CreateLobby_Tx(p, mx, g)
        \/ CreateLobby_SystemMessage(p)
        \/ CreateLobby_Broadcast(p)
        \/ \E u \in Users, l \in 1..(Len(lobbies) + 1) :
               JoinLobby_ReadUser(p, u, l)
        \/ JoinLobby_ReadLobby(p)
        \/ JoinLobby_Update(p)
        \/ JoinLobby_SystemMessage(p)
        \/ JoinLobby_Broadcast(p)
        \/ \E u \in Users : LeaveLobby_ReadUser(p, u)
        \/ LeaveLobby_BroadcastDeleted(p)
        \/ LeaveLobby_BroadcastHost(p)
        \/ LeaveLobby_Commit(p)
        \/ LeaveLobby_BroadcastLeft(p)
        \/ \E l \in 1..(Len(lobbies) + 1) : GetLobbyByID(p, l)
        \/ \E u \in Users, l \in 1..(Len(lobbies) + 1) :
               UpdateLobby_ReadLobby(p, u, l)
        \/ \E mx \in PlayerLimits, g \in Games : UpdateLobby_Save(p, mx, g)
        \/ UpdateLobby_Reload(p)
        \/ UpdateLobby_SystemMessage(p)
        \/ UpdateLobby_BroadcastGame(p)
        \/ UpdateLobby_Broadcast(p)
        \/ \E u \in Users, l \in 1..(Len(lobbies) + 1), t \in Users :
               KickMember_ReadLobby(p, u, l, t)
        \/ KickMember_FindMember(p)
        \/ KickMember_Update(p)
        \/ KickMember_SystemMessage(p)
        \/ KickMember_Broadcast(p)

Spec == Init /\ [][Next]_vars

----------------------------------------------------------------------------
(* Writes that the database refuses *)

\* DB.Model(&user).Update(...) returns an error, which JoinLobby does not
\* look at: no row changes and the handler goes on.
JoinLobby_UpdateFails(p) ==
    /\ procs[p].pc = "join_update"
    /\ procs' = [procs EXCEPT ![p].pc = "join_msg", ![p].failed = TRUE]
    /\ UNCHANGED <<currentLobby, lobbies, messages, nreq, streams, hub, mu>>

\* DB.Model(&memberToKick).Update(...) returns an error, which KickMember
\* does not look at.
KickMember_UpdateFails(p) ==
    /\ procs[p].pc = "kick_update"
    /\ procs' = [procs EXCEPT ![p].pc = "kick_msg", ![p].failed = TRUE]
    /\ UNCHANGED <<currentLobby, lobbies, messages, nreq, streams, hub, mu>>

\* tx.Model(&user).Update("current_lobby_id", nil) returns an error:
\* tx.Rollback(), 500 "Failed to leave lobby".  It is the first statement
\* of the transaction, before any broadcast.
LeaveLobby_UpdateFails(p) ==
    /\ procs[p].pc \in {"leave_deleted", "leave_host", "leave_commit"}
    /\ procs[p].sent = <<>>
    /\ procs' = [procs EXCEPT ![p] =
          [Respond(@, "Failed to leave lobby") EXCEPT !.failed = TRUE]]
    /\ UNCHANGED <<currentLobby, lobbies, messages, nreq, streams, hub, mu>>

\* A failing tx.Delete(&lobby) that keeps the transaction's earlier UPDATE.
LeaveLobby_DeleteFails_NoRollback(p) ==
    /\ procs[p].pc = "leave_deleted"
    /\ currentLobby' = [currentLobby EXCEPT ![procs[p].user] = NoLobby]
    /\ procs' = [procs EXCEPT ![p] =
          [Respond(@, "Failed to delete empty lobby") EXCEPT !.failed = TRUE]]
    /\ UNCHANGED <<lobbies, messages, nreq, streams, hub, mu>>

\* tx.Delete(&lobby) returns an error: tx.Rollback() undoes the pending
\* current_lobby_id update and "left" message, 500 "Failed to delete empty
\* lobby"; lobby_deleted is not broadcast.
LeaveLobby_DeleteFails(p) ==
    /\ procs[p].pc = "leave_deleted"
    /\ procs' = [procs EXCEPT ![p] =
          [Respond(@, "Failed to delete empty lobby") EXCEPT !.failed = TRUE]]
    /\ UNCHANGED <<currentLobby, lobbies, messages, nreq, streams, hub, mu>>

\* tx.Model(&lobby).Update("host_id", nextHost.ID) returns an error:
\* tx.Rollback(), 500 "Failed to transfer host"; host_changed is not
\* broadcast.
LeaveLobby_HostUpdateFails(p) ==
    /\ procs[p].pc = "leave_host"
    /\ procs' = [procs EXCEPT ![p] =
          [Respond(@, "Failed to transfer host") EXCEPT !.failed = TRUE]]
    /\ UNCHANGED <<currentLobby, lobbies, messages, nreq, streams, hub, mu>>

\* tx.Commit() returns an error, which LeaveLobby does not look at: none of
\* the transaction's rows is written and the handler goes on.
LeaveLobby_CommitFails(p) ==
    /\ procs[p].pc = "leave_commit"
    /\ procs' = [procs EXCEPT ![p].pc = "leave_bcast", ![p].failed = TRUE]
    /\ UNCHANGED <<currentLobby, lobbies, messages, nreq, streams, hub, mu>>

\* Membership requests against a database whose writes may fail.
NextFault ==
    \E p \in Procs :
        \/ Return(p)
        \/ \E u \in Users, l \in 1..(Len(lobbies) + 1) :
               JoinLobby_ReadUser(p, u, l)
        \/ JoinLobby_ReadLobby(p)
        \/ JoinLobby_Update(p)
        \/ JoinLobby_UpdateFails(p)
        \/ JoinLobby_SystemMessage(p)
        \/ JoinLobby_Broadcast(p)
        \/ \E u \in Users : LeaveLobby_ReadUser(p, u)
        \/ LeaveLobby_BroadcastDeleted(p)
        \/ LeaveLobby_BroadcastHost(p)
        \/ LeaveLobby_Commit(p)
        \/ LeaveLobby_UpdateFails(p)
        \/ LeaveLobby_DeleteFails(p)
        \/ LeaveLobby_HostUpdateFails(p)
        \/ LeaveLobby_CommitFails(p)
        \/ LeaveLobby_BroadcastLeft(p)
        \/ \E u \in Users, l \in 1..(Len(lobbies) + 1), t \in Users :
               KickMember_ReadLobby(p, u, l, t)
        \/ KickMember_FindMember(p)
        \/ KickMember_Update(p)
        \/ KickMember_UpdateFails(p)
        \/ KickMember_SystemMessage(p)
        \/ KickMember_Broadcast(p)

SpecFault == Init /\ [][NextFault]_vars

----------------------------------------------------------------------------
(* Event streams *)

\* The lobby with its chat and its event streams: the requests of a lobby's
\* members (join, leave, post) and the SSE connections that watch them.
NextHub ==
    \/ \E p \in Procs :
          \/ Return(p)
          \/ \E u \in Users, l \in 1..(Len(lobbies) + 1) :
                 JoinLobby_ReadUser(p, u, l)
          \/ JoinLobby_ReadLobby(p)
          \/ JoinLobby_Update(p)
          \/ JoinLobby_SystemMessage(p)
          \/ JoinLobby_Broadcast(p)
          \/ \E u \in Users : LeaveLobby_ReadUser(p, u)
          \/ LeaveLobby_BroadcastDeleted(p)
          \/ LeaveLobby_BroadcastHost(p)
          \/ LeaveLobby_Commit(p)
          \/ LeaveLobby_BroadcastLeft(p)
          \/ \E u \in Users, l \in 1..(Len(lobbies) + 1) :
                 PostMessage_ReadUser(p, u, l)
          \/ PostMessage_Create(p)
          \/ PostMessage_Broadcast(p)
    \/ \E s \in Streams :
          \/ \E u \in Users, l \in 1..(Len(lobbies) + 1) :
                 SubscribeToLobbyEvents_ReadUser(s, u, l)
          \/ SubscribeToLobbyEvents_Subscribe(s)
          \/ SubscribeToLobbyEvents_Select(s)
          \/ SubscribeToLobbyEvents_Disconnect(s)
          \/ SubscribeToLobbyEvents_Unsubscribe(s)

\* Lobby 1 of two seats, created by user 1 and then joined, or not, by
\* user 2; no request in flight and no stream connected.
InitHub ==
    /\ procs = [p \in Procs |-> Idle]
    /\ nreq = 0
    /\ streams = [s \in Streams |-> NoStream]
    /\ hub = NoClients
    /\ mu = Unlocked
    /\ \E n \in 1..2 : InitLobby(1..n, MinPlayers, 1)

SpecHub == InitHub /\ [][NextHub]_vars

\* The steps of the handler that serves request p, after its first read.
\* Each request runs in its own goroutine; the scheduler keeps a runnable
\* goroutine running and the database answers every statement.
HandlerStep(p) ==
    \/ JoinLobby_ReadLobby(p)
    \/ JoinLobby_Update(p)
    \/ JoinLobby_SystemMessage(p)
    \/ JoinLobby_Broadcast(p)
    \/ LeaveLobby_BroadcastDeleted(p)
    \/ LeaveLobby_BroadcastHost(p)
    \/ LeaveLobby_Commit(p)
    \/ LeaveLobby_BroadcastLeft(p)
    \/ PostMessage_Create(p)
    \/ PostMessage_Broadcast(p)

\* Clients that issue their requests one after another: a request starts
\* only when every earlier one has written its response.  Streams run on.
Sequential == \A p \in Procs : procs[p].pc \in {"idle", "done"}

NextSeq ==
    \/ \E p \in Procs :
          \/ Return(p)
          \/ /\ Sequential
             /\ \E u \in Users, l \in 1..(Len(lobbies) + 1) :
                   JoinLobby_ReadUser(p, u, l)
          \/ JoinLobby_ReadLobby(p)
          \/ JoinLobby_Update(p)
          \/ JoinLobby_SystemMessage(p)
          \/ JoinLobby_Broadcast(p)
          \/ /\ Sequential
             /\ \E u \in Users : LeaveLobby_ReadUser(p, u)
          \/ LeaveLobby_BroadcastDeleted(p)
          \/ LeaveLobby_BroadcastHost(p)
          \/ LeaveLobby_Commit(p)
          \/ LeaveLobby_BroadcastLeft(p)
          \/ /\ Sequential
             /\ \E u \in Users, l \in 1..(Len(lobbies) + 1) :
                   PostMessage_ReadUser(p, u, l)
          \/ PostMessage_Create(p)
          \/ PostMessage_Broadcast(p)
    \/ \E s \in Streams :
          \/ \E u \in Users, l \in 1..(Len(lobbies) + 1) :
                 SubscribeToLobbyEvents_ReadUser(s, u, l)
          \/ SubscribeToLobbyEvents_Subscribe(s)
          \/ SubscribeToLobbyEvents_Select(s)
          \/ SubscribeToLobbyEvents_Disconnect(s)
          \/ SubscribeToLobbyEvents_Unsubscribe(s)

SpecSeq == InitHub /\ [][NextSeq]_vars

\* SpecSeq with handlers that keep running.  Of a stream it is assumed
\* only that its handler returns once its client is gone; a connected
\* client may stay out of its select for ever.
SpecSeqLive ==
    /\ InitHub /\ [][NextSeq]_vars
    /\ \A p \in Procs : WF_vars(HandlerStep(p))
    /\ \A s \in Streams : WF_vars(SubscribeToLobbyEvents_Unsubscribe(s))

----------------------------------------------------------------------------
(* The hub under several clients *)

\* Hub.Unsubscribe called a second time for the lobby and client of a
\* stream that has unsubscribed already.
Unsubscribe_Again(s) ==
    /\ streams[s].state = "closed"
    /\ streams[s].unsubs = 1
    /\ LET r == Hub_Unsubscribe(streams[s].lobby, s)
       IN /\ hub' = r.lobbies
          /\ streams' = Unsubscribed(s, r)
    /\ UNCHANGED <<currentLobby, lobbies, messages, procs, nreq, mu>>

\* The chat of one lobby: members post while several event streams come
\* and go.
NextChat ==
    \/ \E p \in Procs :
          \/ Return(p)
          \/ \E u \in Users, l \in 1..(Len(lobbies) + 1) :
                 PostMessage_ReadUser(p, u, l)
          \/ PostMessage_Create(p)
          \/ PostMessage_Broadcast(p)
          \/ \E u \in Users, l \in 1..(Len(lobbies) + 1) : GetMessages(p, u, l)
    \/ \E s \in Clients :
          \/ \E u \in Users, l \in 1..(Len(lobbies) + 1) :
                 SubscribeToLobbyEvents_ReadUser(s, u, l)
          \/ SubscribeToLobbyEvents_Subscribe(s)
          \/ SubscribeToLobbyEvents_Select(s)
          \/ SubscribeToLobbyEvents_Disconnect(s)
          \/ SubscribeToLobbyEvents_Unsubscribe(s)
          \/ Unsubscribe_Again(s)

\* Lobby 1 with its host in it (who may hold several connections), an empty
\* hub, no request in flight and no stream connected.
InitChat ==
    /\ procs = [p \in Procs |-> Idle]
    /\ nreq = 0
    /\ streams = [s \in Clients |-> NoStream]
    /\ hub = NoClients
    /\ mu = Unlocked
    /\ InitLobby(1..1, MinPlayers, 1)

SpecChat == InitChat /\ [][NextChat]_vars

----------------------------------------------------------------------------
(* The hub statement by statement, under its RWMutex *)

\* The goroutine p that calls into the hub: which call, for which lobby and
\* client, and the clients its Broadcast has still to send to.
HubCall(op, pc, l, s, todo, id) ==
    [Idle EXCEPT !.pc = pc, !.op = op, !.lobby = l, !.target = s,
                 !.members = todo, !.msg = id]

\* The hub call of rec has returned (r is "Panic" when it panicked).
Returned(rec, r) == [rec EXCEPT !.pc = "done", !.members = {}, !.resp = r]

\* defer h.mu.Unlock() / defer h.mu.RUnlock()
Hub_Release(p) == [writer |-> IF mu.writer = p THEN 0 ELSE mu.writer,
                   readers |-> mu.readers \ {p}]

\* Hub.Subscribe, h.mu.Lock(): exclusive, waits for the readers and the
\* writer.  The client is a channel its caller has just made.
Subscribe_Lock(p, l, s) ==
    /\ CanStart(p)
    /\ streams[s].state = "none"
    /\ \A r \in DOMAIN streams : r < s => streams[r].state # "none"
    /\ mu = Unlocked
    /\ mu' = [mu EXCEPT !.writer = p]
    /\ nreq' = nreq + 1
    /\ procs' = [procs EXCEPT ![p] = HubCall("Subscribe", "sub_add", l, s, {}, 0)]
    /\ streams' = [streams EXCEPT ![s].state = "authorized", ![s].lobby = l]
    /\ UNCHANGED <<currentLobby, lobbies, messages, hub>>

\* h.lobbies[lobbyID][client] = true, making the set when it is missing.
Subscribe_Add(p) ==
    /\ procs[p].pc = "sub_add"
    /\ hub' = Hub_Subscribe(procs[p].lobby, procs[p].target)
    /\ streams' = [streams EXCEPT ![procs[p].target].state = "subscribed"]
    /\ procs' = [procs EXCEPT ![p].pc = "hub_unlock"]
    /\ UNCHANGED <<currentLobby, lobbies, messages, nreq, mu>>

\* An Unsubscribe that does not wait for the mutex.
Unsubscribe_Lock_NoWait(p, s) ==
    /\ CanStart(p)
    /\ streams[s].state \notin {"none", "authorized"}
    /\ mu' = [mu EXCEPT !.writer = p]
    /\ nreq' = nreq + 1
    /\ procs' = [procs EXCEPT ![p] =
          HubCall("Unsubscribe", "unsub_find", streams[s].lobby, s, {}, 0)]
    /\ UNCHANGED <<currentLobby, lobbies, messages, streams, hub>>

\* Hub.Unsubscribe, h.mu.Lock(), called with the lobby the client was
\* subscribed to.
Unsubscribe_Lock(p, s) ==
    /\ CanStart(p)
    /\ streams[s].state \notin {"none", "authorized"}
    /\ mu = Unlocked
    /\ mu' = [mu EXCEPT !.writer = p]
    /\ nreq' = nreq + 1
    /\ procs' = [procs EXCEPT ![p] =
          HubCall("Unsubscribe", "unsub_find", streams[s].lobby, s, {}, 0)]
    /\ UNCHANGED <<currentLobby, lobbies, messages, streams, hub>>

\* if clients, ok := h.lobbies[lobbyID]; ok { if _, ok := clients[client]; ok
Unsubscribe_Find(p) ==
    /\ procs[p].pc = "unsub_find"
    /\ procs' = [procs EXCEPT ![p].pc =
          IF procs[p].target \in Hub_Clients(procs[p].lobby)
          THEN "unsub_close" ELSE "hub_unlock"]
    /\ UNCHANGED <<currentLobby, lobbies, messages, nreq, streams, hub, mu>>

\* delete(clients, client); close(client); delete(h.lobbies, lobbyID) when
\* the set is empty.  close of a closed channel panics: closes counts them.
Unsubscribe_Close(p) ==
    /\ procs[p].pc = "unsub_close"
    /\ LET l == procs[p].lobby
           s == procs[p].target
       IN /\ hub' = IF Hub_Clients(l) \ {s} = {}
                    THEN [k \in DOMAIN hub \ {l} |-> hub[k]]
                    ELSE [hub EXCEPT ![l] = @ \ {s}]
          /\ streams' = [streams EXCEPT ![s].state = "closed",
                                        ![s].unsubs = @ + 1,
                                        ![s].closes = @ + 1]
    /\ procs' = [procs EXCEPT ![p].pc = "hub_unlock"]
    /\ UNCHANGED <<currentLobby, lobbies, messages, nreq, mu>>

\* The deferred Unlock of Subscribe and Unsubscribe; the call returns.
Hub_Unlock(p) ==
    /\ procs[p].pc = "hub_unlock"
    /\ mu' = Hub_Release(p)
    /\ procs' = [procs EXCEPT ![p] = Returned(@, "OK")]
    /\ UNCHANGED <<currentLobby, lobbies, messages, nreq, streams, hub>>

\* A Broadcast that does not wait for the mutex.
Broadcast_RLock_NoWait(p, l) ==
    /\ CanStart(p)
    /\ mu' = [mu EXCEPT !.readers = @ \cup {p}]
    /\ nreq' = nreq + 1
    /\ procs' = [procs EXCEPT ![p] =
          HubCall("Broadcast", "bcast_send", l, 0, Hub_Clients(l), nreq + 1)]
    /\ UNCHANGED <<currentLobby, lobbies, messages, streams, hub>>

\* A Broadcast that ranges over the clients of every lobby.
Broadcast_RLock_EveryLobby(p, l) ==
    /\ CanStart(p)
    /\ mu.writer = 0
    /\ mu' = [mu EXCEPT !.readers = @ \cup {p}]
    /\ nreq' = nreq + 1
    /\ procs' = [procs EXCEPT ![p] =
          HubCall("Broadcast", "bcast_send", l, 0,
                  UNION {hub[k] : k \in DOMAIN hub}, nreq + 1)]
    /\ UNCHANGED <<currentLobby, lobbies, messages, streams, hub>>

\* Hub.Broadcast, h.mu.RLock(): shared, waits for the writer only; then
\* clients, ok := h.lobbies[lobbyID] and json.Marshal(event).  The map
\* cannot change while the read lock is held, so the clients the loop will
\* visit are those of this moment.
Broadcast_RLock(p, l) ==
    /\ CanStart(p)
    /\ mu.writer = 0
    /\ mu' = [mu EXCEPT !.readers = @ \cup {p}]
    /\ nreq' = nreq + 1
    /\ procs' = [procs EXCEPT ![p] =
          HubCall("Broadcast", "bcast_send", l, 0, Hub_Clients(l), nreq + 1)]
    /\ UNCHANGED <<currentLobby, lobbies, messages, streams, hub>>

\* One pass of for client := range clients: select { case client <- bytes:
\* default: }.  A send on a closed channel panics (the deferred RUnlock
\* runs); a client that is receiving takes the event; otherwise it is
\* dropped.
Broadcast_Send(p) ==
    /\ procs[p].pc = "bcast_send"
    /\ \E c \in procs[p].members :
          LET e == MessageEvent(procs[p].lobby, procs[p].msg, NoUser)
          IN IF streams[c].closes > 0
             THEN /\ procs' = [procs EXCEPT ![p] = Returned(@, "Panic")]
                  /\ mu' = Hub_Release(p)
                  /\ streams' = streams
             ELSE /\ procs' = [procs EXCEPT ![p].members = @ \ {c}]
                  /\ mu' = mu
                  /\ streams' =
                       IF streams[c].state = "waiting"
                       THEN [streams EXCEPT ![c].state = "subscribed",
                                            ![c].received = Append(@, e)]
                       ELSE streams
    /\ UNCHANGED <<currentLobby, lobbies, messages, nreq, hub>>

\* The loop is over: the deferred RUnlock, and Broadcast returns.
Broadcast_RUnlock(p) ==
    /\ procs[p].pc = "bcast_send"
    /\ procs[p].members = {}
    /\ mu' = Hub_Release(p)
    /\ procs' = [procs EXCEPT ![p] = Returned(@, "OK")]
    /\ UNCHANGED <<currentLobby, lobbies, messages, nreq, streams, hub>>

\* The lobbies the hub is called for: lobby 1 and one more.
HubLobbies == 1..(Len(lobbies) + 1)

\* Goroutines calling Subscribe, Unsubscribe and Broadcast at will, also
\* for the same lobby and client at once, while clients come to receive.
NextMutex ==
    \/ \E p \in Procs :
          \/ Return(p)
          \/ \E l \in HubLobbies, s \in Clients : Subscribe_Lock(p, l, s)
          \/ Subscribe_Add(p)
          \/ \E s \in Clients : Unsubscribe_Lock(p, s)
          \/ Unsubscribe_Find(p)
          \/ Unsubscribe_Close(p)
          \/ Hub_Unlock(p)
          \/ \E l \in HubLobbies : Broadcast_RLock(p, l)
          \/ Broadcast_Send(p)
          \/ Broadcast_RUnlock(p)
    \/ \E s \in Clients : SubscribeToLobbyEvents_Select(s)

\* Lobby 1 with its host, whose stream (client 1) is registered in the hub;
\* no call in flight, the mutex free.
InitMutex ==
    /\ procs = [p \in Procs |-> Idle]
    /\ nreq = 0
    /\ streams = [s \in Clients |->
                    IF s = 1 THEN [NoStream EXCEPT !.state = "subscribed",
                                                   !.user = 1, !.lobby = 1]
                    ELSE NoStream]
    /\ hub = [l \in {1} |-> {1}]
    /\ mu = Unlocked
    /\ InitLobby(1..1, MinPlayers, 1)

SpecMutex == InitMutex /\ [][NextMutex]_vars

----------------------------------------------------------------------------
(* Properties *)

\* C1: every user is in no lobby or in one lobby that exists; no user's
\* currentLobby refers to a lobby that has been deleted.
C1_CurrentLobbyExists ==
    \A u \in Users : currentLobby[u] # NoLobby => Live(currentLobby[u])

\* C2: JoinLobby calls by distinct users that run concurrently on the same
\* lobby do not all succeed past its capacity: when two of them have both
\* answered 200 the lobby holds at most maxPlayers members.
C2_ConcurrentJoinsKeepCapacity ==
    \A p, q \in Procs :
        (/\ p # q
         /\ procs[p].op = "JoinLobby" /\ procs[p].resp = "OK"
         /\ procs[q].op = "JoinLobby" /\ procs[q].resp = "OK"
         /\ procs[p].lobby = procs[q].lobby
         /\ procs[p].user # procs[q].user
         /\ Live(procs[p].lobby))
        => Cardinality(Members(procs[p].lobby))
              <= lobbies[procs[p].lobby].maxPlayers

\* C3: an existing lobby never holds more members than its maxPlayers; stated
\* over the steps that add a member: a step that adds a user to an existing
\* lobby leaves it with at most maxPlayers members.
C3_MembersWithinCapacity ==
    [][\A l \in LobbyIDs :
          (/\ Live(l)'
           /\ Members(l)' # Members(l)
           /\ Members(l) \subseteq Members(l)')
          => Cardinality(Members(l)') <= lobbies'[l].maxPlayers]_vars

\* C4: the host of every existing lobby is a current member of that lobby;
\* stated over the requests the claim names: no step of a LeaveLobby, a
\* KickMember or an UpdateLobby leaves an existing lobby, whose host was a
\* member, with a host that is not a member.
C4_HostIsMember ==
    [][\A l \in LobbyIDs, p \in Procs :
          (/\ procs'[p] # procs[p]
           /\ procs[p].op \in {"LeaveLobby", "KickMember", "UpdateLobby"}
           /\ Live(l) /\ currentLobby[lobbies[l].host] = l
           /\ Live(l)')
          => currentLobby'[lobbies'[l].host] = l]_vars

\* C5: no existing lobby is left with zero members: a LeaveLobby or
\* KickMember commit that removes the last member of an existing lobby
\* deletes the lobby in that same commit.
C5_NoEmptyLobby ==
    [][\A l \in LobbyIDs, p \in Procs :
          (/\ procs[p].pc \in {"leave_commit", "kick_update"}
           /\ procs'[p] # procs[p]
           /\ Live(l) /\ Members(l) # {}
           /\ Members(l)' = {})
          => ~Live(l)']_vars

\* C6: no user is the host of two existing lobbies, and of two CreateLobby
\* or JoinLobby calls the same user runs concurrently at most one succeeds.
C6_OneLobbyPerUser ==
    /\ \A l1, l2 \in LobbyIDs :
          (Live(l1) /\ Live(l2) /\ lobbies[l1].host = lobbies[l2].host)
          => l1 = l2
    /\ \A p, q \in Procs :
          (/\ p # q
           /\ procs[p].user = procs[q].user
           /\ procs[p].op \in {"CreateLobby", "JoinLobby"}
           /\ procs[q].op \in {"CreateLobby", "JoinLobby"})
          => ~(/\ procs[p].resp \in {"Created", "OK"}
               /\ procs[q].resp \in {"Created", "OK"})

\* C7: CreateLobby by a user whose currentLobby is set answers Conflict and
\* writes nothing; CreateLobby by a user with no currentLobby commits a new
\* lobby whose host is that user, sets the user's currentLobby to it, leaves
\* it with exactly that one member, touches no other row, and answers 201.
C7_CreateLobbyContract ==
    [][\A p \in Procs :
         /\ (procs[p].pc = "idle" /\ procs'[p].op = "CreateLobby")
            => LET u == procs'[p].user
               IN /\ UNCHANGED <<currentLobby, lobbies, messages>>
                  /\ (currentLobby[u] # NoLobby)
                     => (/\ procs'[p].pc = "done"
                         /\ procs'[p].resp = "Conflict"
                         /\ procs'[p].sent = <<>>)
                  /\ (currentLobby[u] = NoLobby)
                     => procs'[p].pc = "create_tx"
         /\ (procs[p].pc = "create_tx" /\ procs'[p] # procs[p])
            => LET u == procs[p].user
                   id == procs'[p].lobby
               IN /\ procs'[p].pc = "create_msg"
                  /\ id \notin LobbyIDs
                  /\ id = Len(lobbies')
                  /\ ~lobbies'[id].deleted
                  /\ lobbies'[id].host = u
                  /\ {v \in Users : currentLobby'[v] = id} = {u}
                  /\ \A l \in LobbyIDs : lobbies'[l] = lobbies[l]
                  /\ \A v \in Users \ {u} : currentLobby'[v] = currentLobby[v]
         /\ (procs[p].pc = "create_bcast" /\ procs'[p] # procs[p])
            => (procs'[p].pc = "done" /\ procs'[p].resp = "Created")]_vars

\* C7 happens: one CreateLobby has answered Conflict for a user in a lobby
\* while another has answered 201 and its user is the only member of the
\* lobby it created.
C7_Witness ==
    \E p, q \in Procs :
        /\ procs[p].op = "CreateLobby" /\ procs[p].resp = "Conflict"
        /\ currentLobby[procs[p].user] # NoLobby
        /\ procs[q].op = "CreateLobby" /\ procs[q].resp = "Created"
        /\ lobbies[procs[q].lobby].host = procs[q].user
        /\ Members(procs[q].lobby) = {procs[q].user}

\* C8: a JoinLobby that finds the lobby with as many members as maxPlayers
\* answers Conflict "Lobby is full"; no step of it changes a user's
\* currentLobby, a lobby or the message log, and it broadcasts nothing.
C8_JoinFullLobbyRejected ==
    [][\A p \in Procs :
         /\ (procs[p].pc = "idle" /\ procs'[p].op = "JoinLobby")
            => UNCHANGED <<currentLobby, lobbies, messages>>
         /\ (/\ procs[p].pc = "join_lobby" /\ procs'[p] # procs[p]
             /\ Live(procs[p].lobby)
             /\ Cardinality(Members(procs[p].lobby))
                   = lobbies[procs[p].lobby].maxPlayers)
            => /\ procs'[p].pc = "done"
               /\ procs'[p].resp = "LobbyFull"
               /\ procs'[p].sent = <<>>
               /\ UNCHANGED <<currentLobby, lobbies, messages>>]_vars

\* C8 happens: with no other request in flight, user 3 has been refused by
\* the lobby of maxPlayers 2 that user 1 created and user 2 joined, and its
\* members are still exactly users 1 and 2.
C8_Witness ==
    \E p \in Procs :
        /\ procs[p].op = "JoinLobby" /\ procs[p].resp = "LobbyFull"
        /\ procs[p].user = 3 /\ procs[p].lobby = 1
        /\ \A q \in Procs \ {p} : procs[q].pc = "idle"
        /\ lobbies[1].maxPlayers = 2
        /\ Members(1) = {1, 2}
        /\ currentLobby[3] = NoLobby
        /\ Len(messages) = 2

\* C9: JoinLobby by a user whose currentLobby is set answers Conflict, and
\* JoinLobby on a lobby id that does not exist answers NotFound; either way
\* no user's currentLobby, no lobby and no message changes, and nothing is
\* broadcast.
C9_JoinRejections ==
    [][\A p \in Procs :
         /\ (/\ procs[p].pc = "idle" /\ procs'[p].op = "JoinLobby"
             /\ currentLobby[procs'[p].user] # NoLobby)
            => /\ procs'[p].pc = "done"
               /\ procs'[p].resp = "Conflict"
               /\ procs'[p].sent = <<>>
               /\ UNCHANGED <<currentLobby, lobbies, messages>>
         /\ (/\ procs[p].pc = "idle" /\ procs'[p].op = "JoinLobby"
             /\ currentLobby[procs'[p].user] = NoLobby)
            => /\ procs'[p].pc = "join_lobby"
               /\ UNCHANGED <<currentLobby, lobbies, messages>>
         /\ (/\ procs[p].pc = "join_lobby" /\ procs'[p] # procs[p]
             /\ ~Live(procs[p].lobby))
            => /\ procs'[p].pc = "done"
               /\ procs'[p].resp = "NotFound"
               /\ procs'[p].sent = <<>>
               /\ UNCHANGED <<currentLobby, lobbies, messages>>]_vars

\* C9 happens: one JoinLobby has answered Conflict for a user in a lobby and
\* another has answered NotFound for a lobby id that does not exist.
C9_Witness ==
    \E p, q \in Procs :
        /\ procs[p].op = "JoinLobby" /\ procs[p].resp = "Conflict"
        /\ currentLobby[procs[p].user] # NoLobby
        /\ procs[q].op = "JoinLobby" /\ procs[q].resp = "NotFound"
        /\ ~Live(procs[q].lobby)
        /\ currentLobby[procs[q].user] = NoLobby

\* C10: the LeaveLobby commit of the last remaining member of a lobby
\* deletes the lobby, and a GetLobbyByID or JoinLobby that looks up a deleted
\* lobby answers NotFound.
C10_LastLeaveDeletesLobby ==
    [][\A p \in Procs :
         /\ (/\ procs[p].pc = "leave_commit" /\ procs'[p] # procs[p]
             /\ Live(procs[p].lobby)
             /\ Members(procs[p].lobby) = {procs[p].user})
            => ~Live(procs[p].lobby)'
         /\ (/\ procs[p].pc = "idle" /\ procs'[p].op = "GetLobbyByID"
             /\ ~Live(procs'[p].lobby))
            => procs'[p].resp = "NotFound"
         /\ (/\ procs[p].pc = "join_lobby" /\ procs'[p] # procs[p]
             /\ ~Live(procs[p].lobby))
            => procs'[p].resp = "NotFound"]_vars

\* C11: when the host's LeaveLobby commits and other members remain, the
\* lobby's host becomes the earliest-joined of the remaining members.
C11_SuccessorIsEarliestJoined ==
    [][\A p \in Procs :
         LET u == procs[p].user
             l == procs[p].lobby
             rem == Members(l) \ {u}
         IN (/\ procs[p].pc = "leave_commit" /\ procs'[p] # procs[p]
             /\ Live(l) /\ lobbies[l].host = u
             /\ rem # {})
            => /\ lobbies'[l].host \in rem
               /\ \A v \in rem :
                     JoinedAt(lobbies'[l].host, l) <= JoinedAt(v, l)]_vars

\* C15: no request has handed an event to the hub while the write that
\* holds its state change is still to be committed.
C15_BroadcastAfterCommit ==
    \A p \in Procs :
        procs[p].pc \in {"create_tx", "join_update", "leave_commit",
                         "kick_update", "update_save"}
        => procs[p].sent = <<>>

\* C18: KickMember answers NotFound for a lobby that does not exist, Forbidden
\* when the caller is not its host, a validation error when the target is
\* the host, and NotFound when the target's currentLobby is not this lobby;
\* a refused KickMember changes no user, lobby or message and broadcasts
\* nothing.
C18_KickMemberRejections ==
    [][\A p \in Procs :
         /\ (procs[p].pc = "idle" /\ procs'[p].op = "KickMember")
            => LET u == procs'[p].user
                   l == procs'[p].lobby
                   t == procs'[p].target
                   r == IF ~Live(l) THEN "NotFound"
                        ELSE IF lobbies[l].host # u THEN "Forbidden"
                        ELSE IF t = lobbies[l].host THEN "BadRequest"
                        ELSE "none"
               IN /\ procs'[p].resp = r
                  /\ procs'[p].pc = IF r = "none" THEN "kick_find" ELSE "done"
                  /\ procs'[p].sent = <<>>
                  /\ UNCHANGED <<currentLobby, lobbies, messages, streams>>
         /\ (/\ procs[p].pc = "kick_find" /\ procs'[p] # procs[p]
             /\ currentLobby[procs[p].target] # procs[p].lobby)
            => /\ procs'[p].pc = "done"
               /\ procs'[p].resp = "NotFound"
               /\ procs'[p].sent = <<>>
               /\ UNCHANGED <<currentLobby, lobbies, messages, streams>>]_vars

\* C18 happens: one KickMember by a user who is not the host has answered
\* Forbidden and another, by the host on a user who is not a member, has
\* answered NotFound.
C18_Witness ==
    \E p, q \in Procs :
        /\ procs[p].op = "KickMember" /\ procs[p].resp = "Forbidden"
        /\ Live(procs[p].lobby)
        /\ lobbies[procs[p].lobby].host # procs[p].user
        /\ procs[q].op = "KickMember" /\ procs[q].resp = "NotFound"
        /\ Live(procs[q].lobby)
        /\ lobbies[procs[q].lobby].host = procs[q].user
        /\ currentLobby[procs[q].target] # procs[q].lobby

\* C19: the write of a KickMember clears the target's currentLobby and
\* nothing else: no lobby row changes (the lobby stays, with its host and
\* maxPlayers) and every other user keeps its currentLobby; the rest of the
\* request only appends its system message.
C19_KickMemberFrame ==
    [][\A p \in Procs :
         /\ (procs[p].pc = "kick_update" /\ procs'[p] # procs[p])
            => /\ currentLobby' =
                     [currentLobby EXCEPT ![procs[p].target] = NoLobby]
               /\ UNCHANGED <<lobbies, messages>>
         /\ (procs[p].pc = "kick_msg" /\ procs'[p] # procs[p])
            => UNCHANGED <<currentLobby, lobbies>>
         /\ (procs[p].pc = "kick_bcast" /\ procs'[p] # procs[p])
            => /\ procs'[p].resp = "OK"
               /\ UNCHANGED <<currentLobby, lobbies, messages>>]_vars

\* C19 happens: the host of lobby 1 has kicked user 2 out of members 1, 2
\* and 3: the lobby exists, user 1 is its host, users 1 and 3 are its members.
C19_Witness ==
    \E p \in Procs :
        /\ procs[p].op = "KickMember" /\ procs[p].resp = "OK"
        /\ procs[p].lobby = 1 /\ procs[p].user = 1
        /\ \A q \in Procs \ {p} : procs[q].pc = "idle"
        /\ Live(1) /\ lobbies[1].host = 1
        /\ currentLobby[2] = NoLobby
        /\ Members(1) = {1, 3}

\* C20: LeaveLobby by a user whose currentLobby is not set answers NotFound
\* and changes no user, lobby or message row and broadcasts nothing.
C20_LeaveWithoutLobby ==
    [][\A p \in Procs :
         (/\ procs[p].pc = "idle" /\ procs'[p].op = "LeaveLobby"
          /\ currentLobby[procs'[p].user] = NoLobby)
         => /\ procs'[p].pc = "done"
            /\ procs'[p].resp = "NotFound"
            /\ procs'[p].sent = <<>>
            /\ UNCHANGED <<currentLobby, lobbies, messages, streams>>]_vars

\* C20 happens: a LeaveLobby by a user in no lobby has answered NotFound.
C20_Witness ==
    \E p \in Procs :
        /\ procs[p].op = "LeaveLobby" /\ procs[p].resp = "NotFound"
        /\ currentLobby[procs[p].user] = NoLobby

\* C12: when host A leaves with another member present, the host_changed
\* event that names the successor is observed by every stream that is
\* subscribed to the lobby and not disconnected at that time.
C12_HostChangedToSubscribed ==
    [][\A p \in Procs :
         (procs[p].pc = "leave_host" /\ procs'[p] # procs[p])
         => \A s \in Hub_Clients(procs[p].lobby) :
               streams'[s].received =
                  Append(streams[s].received,
                         Event(procs[p].lobby, "host_changed",
                               procs'[p].target))]_vars

\* C13: when a LeaveLobby finds the leaver to be the last member, the
\* lobby_deleted event is delivered to every stream still registered for the
\* lobby.
C13_LobbyDeletedToSubscribed ==
    [][\A p \in Procs :
         (procs[p].pc = "leave_deleted" /\ procs'[p] # procs[p])
         => \A s \in Hub_Clients(procs[p].lobby) :
               streams'[s].received =
                  Append(streams[s].received,
                         Event(procs[p].lobby, "lobby_deleted", NoUser))]_vars

\* C14: a JoinLobby or KickMember whose membership update failed, and a
\* LeaveLobby whose transaction failed to commit, has broadcast no event and
\* persists no system message.
C14_NothingEmittedOnFailure ==
    [][\A p \in Procs :
         procs'[p].failed
         => /\ procs'[p].sent = <<>>
            /\ (procs[p].failed /\ procs'[p] # procs[p])
               => messages' = messages]_vars

\* C16: a subscriber that received the new_message events of two committed
\* PostMessage calls on its lobby received them in commit order, that is in
\* the order of the message rows.
C16_EventsInCommitOrder ==
    \A s \in Streams :
       \A i \in 1..Len(streams[s].received) :
          \A j \in 1..Len(streams[s].received) :
             ( /\ i < j
               /\ streams[s].received[i].type = "new_message"
               /\ streams[s].received[j].type = "new_message" )
             => streams[s].received[i].id < streams[s].received[j].id

\* C17: when two PostMessage calls on a lobby ran one after the other and a
\* subscriber of that lobby that is still connected observed the first
\* new_message, it observed the second new_message after it.
C17_SequentialPostsObservedInOrder ==
    \A p \in Procs : \A q \in Procs : \A s \in Streams :
       ( /\ procs[p].op = "PostMessage" /\ procs[p].pc = "done"
         /\ procs[q].op = "PostMessage" /\ procs[q].pc = "done"
         /\ procs[p].resp = "Created" /\ procs[q].resp = "Created"
         /\ procs[p].lobby = procs[q].lobby
         /\ procs[p].sent[1].id < procs[q].sent[1].id
         /\ s \in Hub_Clients(procs[p].lobby)
         /\ \E i \in 1..Len(streams[s].received) :
               streams[s].received[i] = procs[p].sent[1] )
       => \E i \in 1..Len(streams[s].received) :
             \E j \in 1..Len(streams[s].received) :
                /\ i < j
                /\ streams[s].received[i] = procs[p].sent[1]
                /\ streams[s].received[j] = procs[q].sent[1]

\* C21: UpdateLobby answers NotFound for a lobby that does not exist and
\* Forbidden when the caller is not the lobby's host; a refused UpdateLobby
\* changes no lobby, user or message row and broadcasts nothing.
C21_UpdateLobbyRejections ==
    [][\A p \in Procs :
         (procs[p].pc = "idle" /\ procs'[p].op = "UpdateLobby")
         => LET u == procs'[p].user
                l == procs'[p].lobby
                r == IF ~Live(l) THEN "NotFound"
                     ELSE IF lobbies[l].host # u THEN "Forbidden"
                     ELSE "none"
            IN /\ procs'[p].resp = r
               /\ procs'[p].pc = IF r = "none" THEN "update_save" ELSE "done"
               /\ procs'[p].sent = <<>>
               /\ UNCHANGED <<currentLobby, lobbies, messages, streams>>]_vars

\* C21 happens: one UpdateLobby on a lobby that does not exist has answered
\* NotFound and another, by a member who is not the host, Forbidden.
C21_Witness ==
    \E p, q \in Procs :
        /\ procs[p].op = "UpdateLobby" /\ procs[p].resp = "NotFound"
        /\ ~Live(procs[p].lobby)
        /\ procs[q].op = "UpdateLobby" /\ procs[q].resp = "Forbidden"
        /\ Live(procs[q].lobby)
        /\ lobbies[procs[q].lobby].host # procs[q].user
        /\ currentLobby[procs[q].user] = procs[q].lobby

\* C22: the write of an UpdateLobby on an existing lobby changes only that
\* lobby's game and maxPlayers: the lobby's host is unchanged, no other
\* lobby changes and every user's currentLobby is unchanged.
C22_UpdateLobbyFrame ==
    [][\A p \in Procs :
         (/\ procs[p].pc = "update_save" /\ procs'[p] # procs[p]
          /\ Live(procs[p].lobby))
         => /\ lobbies'[procs[p].lobby].host = lobbies[procs[p].lobby].host
            /\ ~lobbies'[procs[p].lobby].deleted
            /\ \A l \in LobbyIDs \ {procs[p].lobby} : lobbies'[l] = lobbies[l]
            /\ UNCHANGED <<currentLobby, messages>>]_vars

C24_HubNeverFailsRequest ==
    [][\A p \in Procs :
         (/\ procs[p].pc \in {"join_bcast", "leave_bcast"}
          /\ procs'[p] # procs[p])
         => /\ procs'[p].pc = "done"
            /\ procs'[p].resp = "OK"
            /\ UNCHANGED <<currentLobby, lobbies, messages>>]_vars

\* C24 happens: a JoinLobby and a LeaveLobby on one lobby have both
\* answered 200; a connected stream of the leaving user, authorized while
\* that user was a member, took the join's user_joined and did not get the
\* leave's user_left (dropped, or broadcast before the stream registered).
C24_Witness ==
    \E p, q \in Procs : \E s \in Streams :
        /\ procs[p].op = "JoinLobby" /\ procs[p].resp = "OK"
        /\ procs[q].op = "LeaveLobby" /\ procs[q].resp = "OK"
        /\ procs[p].lobby = procs[q].lobby
        /\ s \in Hub_Clients(procs[q].lobby)
        /\ streams[s].user = procs[q].user
        /\ currentLobby[procs[q].user] = NoLobby
        /\ \E i \in 1..Len(streams[s].received) :
              streams[s].received[i] = procs[p].sent[1]
        /\ \A i \in 1..Len(streams[s].received) :
              streams[s].received[i] #
                 Event(procs[q].lobby, "user_left", procs[q].user)

\* C25: a handler that is about to call Broadcast gets to its response
\* whatever the clients of the lobby do, also when a registered client never
\* receives.
C25_BroadcastTerminates ==
    \A p \in Procs :
       (procs[p].pc \in {"join_bcast", "leave_deleted", "leave_host",
                         "leave_bcast", "post_bcast"})
       ~> (procs[p].pc = "done")

\* C25 happens: two PostMessage calls, one after the other, have answered
\* 201 while a stream registered for their lobby sits outside its select,
\* having taken the event of the first and not that of the second.
C25_Witness ==
    \E p, q \in Procs : \E s \in Streams :
        /\ procs[p].op = "PostMessage" /\ procs[p].resp = "Created"
        /\ procs[q].op = "PostMessage" /\ procs[q].resp = "Created"
        /\ procs[p].lobby = procs[q].lobby
        /\ s \in Hub_Clients(procs[p].lobby)
        /\ streams[s].state = "subscribed"
        /\ streams[s].received = procs[q].sent
        /\ procs[q].sent[1].id < procs[p].sent[1].id

\* C26: a Broadcast drops the event only for the clients of the lobby that
\* are not receiving: every client that is receiving gets it, and a client
\* that missed it stays registered with its channel open.
C26_DropForBusyClientOnly ==
    [][\A p \in Procs :
         (procs[p].pc = "post_bcast" /\ procs'[p] # procs[p])
         => /\ hub' = hub
            /\ \A s \in Hub_Clients(procs[p].lobby) :
                  /\ streams'[s].closes = streams[s].closes
                  /\ streams'[s].received =
                        IF streams[s].state = "waiting"
                        THEN Append(streams[s].received, procs'[p].sent[1])
                        ELSE streams[s].received]_vars

\* C26 happens: two clients are registered for a lobby, both took the event
\* of one PostMessage, and the event of a later PostMessage was taken by one
\* of them and not by the other, which is still registered and open.
C26_Witness ==
    \E p, q \in Procs : \E s, r \in Clients :
        /\ procs[p].op = "PostMessage" /\ procs[p].resp = "Created"
        /\ procs[q].op = "PostMessage" /\ procs[q].resp = "Created"
        /\ procs[p].lobby = procs[q].lobby
        /\ procs[p].sent[1].id < procs[q].sent[1].id
        /\ {s, r} \subseteq Hub_Clients(procs[p].lobby)
        /\ streams[s].received = procs[p].sent \o procs[q].sent
        /\ streams[r].received = procs[p].sent
        /\ streams[r].closes = 0

\* C27: a second Unsubscribe for the lobby and client of an earlier
\* Unsubscribe changes nothing: the hub's registry stays as the first call
\* left it, the client's channel is not closed again, and no other stream is
\* touched.
C27_UnsubscribeIdempotent ==
    [][\A s \in DOMAIN streams :
         (streams[s].unsubs = 1 /\ streams'[s].unsubs = 2)
         => /\ hub' = hub
            /\ streams[s].closes = 1
            /\ streams' = [streams EXCEPT ![s].unsubs = 2]]_vars

\* C27 happens: Unsubscribe has run twice for a client whose channel was
\* closed once, while another client of the same lobby is still registered.
C27_Witness ==
    \E s, r \in Clients :
        /\ streams[s].unsubs = 2
        /\ streams[s].closes = 1
        /\ r # s
        /\ streams[r].lobby = streams[s].lobby
        /\ hub = [l \in {streams[s].lobby} |-> {r}]

\* C28: the hub holds a client set for a lobby exactly when some client
\* subscribed to that lobby has not been unsubscribed, and never an empty
\* one; every client in a set is one subscribed to that lobby whose channel
\* is open; every unsubscribed client is in no set and its channel is closed.
C28_RegistryMatchesSubscriptions ==
    /\ \A l \in DOMAIN hub :
          /\ hub[l] # {}
          /\ \A s \in hub[l] :
                /\ streams[s].lobby = l
                /\ streams[s].state \in {"subscribed", "waiting"}
                /\ streams[s].closes = 0
    /\ \A s \in DOMAIN streams :
          /\ streams[s].state \in {"subscribed", "waiting"}
             => s \in Hub_Clients(streams[s].lobby)
          /\ streams[s].unsubs > 0
             => /\ streams[s].closes = 1
                /\ \A l \in DOMAIN hub : s \notin hub[l]

\* C28 happens: two clients subscribed to lobby 1 and both unsubscribed, so
\* the set of lobby 1 was made, shrank and was deleted.
C28_Witness ==
    /\ hub = NoClients
    /\ \A s \in Clients :
          /\ streams[s].lobby = 1
          /\ streams[s].unsubs > 0
          /\ streams[s].closes = 1

\* C29: a Broadcast to a lobby that has no client set delivers nothing,
\* makes no set, leaves the hub and every stream as they were, and the
\* handler goes on as after any other Broadcast (a final Broadcast is
\* followed by the success response).
C29_BroadcastWithoutClients ==
    [][\A p \in Procs :
         (/\ procs[p].pc \in {"join_bcast", "leave_deleted", "leave_host",
                              "leave_bcast", "post_bcast"}
          /\ procs'[p] # procs[p]
          /\ procs[p].lobby \notin DOMAIN hub)
         => /\ hub' = hub
            /\ streams' = streams
            /\ Len(procs'[p].sent) = Len(procs[p].sent) + 1
            /\ procs'[p].pc \in {"leave_commit", "done"}
            /\ procs'[p].pc = "done" => procs'[p].resp \in {"OK", "Created"}]_vars

\* C29 happens: the last member has left lobby 1, its lobby_deleted and
\* user_left were broadcast and answered 200, and no stream has ever
\* connected: the hub is as it was made.
C29_Witness ==
    \E p \in Procs :
        /\ procs[p].op = "LeaveLobby" /\ procs[p].resp = "OK"
        /\ Len(procs[p].sent) = 2
        /\ \A s \in Streams : streams[s] = NoStream
        /\ hub = NoClients

\* C30: once the client of a stream is gone, the stream's handler gets to
\* its Unsubscribe: the client is out of the hub and its channel closed;
\* meanwhile every handler that is running can take its next step, so no
\* request or broadcast waits for the cancellation.
C30_DisconnectUnsubscribes ==
    /\ \A s \in Streams :
          streams[s].gone
          ~> ( /\ streams[s].state = "closed"
               /\ s \notin Hub_Clients(streams[s].lobby)
               /\ streams[s].closes = 1 )
    /\ [](\A p \in Procs :
            procs[p].pc \notin {"idle", "done"} => ENABLED HandlerStep(p))

\* C30 happens: a stream that took an event has lost its client and
\* unsubscribed, and a PostMessage broadcast after that has answered 201.
C30_Witness ==
    \E p \in Procs : \E s \in Streams :
        /\ streams[s].gone
        /\ streams[s].state = "closed"
        /\ streams[s].closes = 1
        /\ streams[s].received # <<>>
        /\ hub = NoClients
        /\ procs[p].op = "PostMessage" /\ procs[p].resp = "Created"
        /\ \A i \in 1..Len(streams[s].received) :
              streams[s].received[i] # procs[p].sent[1]

C32_OtherLobbiesUntouched ==
    [][\A p \in Procs :
         (/\ procs[p].op \in {"JoinLobby", "LeaveLobby", "KickMember",
                               "UpdateLobby"}
          /\ procs'[p] # procs[p])
         => \A l \in LobbyIDs \ {procs[p].lobby} :
               /\ lobbies'[l] = lobbies[l]
               /\ {u \in Users : currentLobby'[u] = l} = Members(l)
               /\ \A i \in 1..Len(messages') :
                     messages'[i].lobby = l
                     => (i <= Len(messages) /\ messages[i] = messages'[i])
               /\ hub' = hub]_vars

\* C33: in every state a committed membership has its system message: each
\* member of a lobby has a "created" or "joined" message of that lobby.
C33_ChangeAndMessageTogether ==
    \A u \in Users :
       currentLobby[u] # NoLobby
       => \E i \in 1..Len(messages) :
             /\ messages[i].lobby = currentLobby[u]
             /\ messages[i].user = u
             /\ messages[i].kind \in {"created", "joined"}

\* C34: an event of a request of another user reaches a stream only while
\* the stream's user has the stream's lobby as currentLobby.
C34_EventsOnlyToMembers ==
    [][\A p \in Procs : \A s \in DOMAIN streams :
         (/\ procs'[p] # procs[p]
          /\ streams'[s].received # streams[s].received
          /\ procs[p].user # streams[s].user)
         => currentLobby[streams[s].user] = streams[s].lobby]_vars

\* C35: under any interleaving of Broadcast and Unsubscribe, Broadcast never
\* sends on a closed channel: no Broadcast panics; while a Broadcast is in
\* its loop it holds the mutex shared, no writer holds it, and every client
\* it has still to send to is in the set of its lobby and open; an
\* Unsubscribe about to close holds the mutex alone; and a closed channel is
\* in no set.
C35_NoSendOnClosed ==
    /\ \A p \in Procs :
          /\ procs[p].resp # "Panic"
          /\ procs[p].pc = "bcast_send"
             => /\ p \in mu.readers
                /\ mu.writer = 0
                /\ \A c \in procs[p].members :
                      /\ c \in Hub_Clients(procs[p].lobby)
                      /\ streams[c].closes = 0
          /\ procs[p].pc = "unsub_close"
             => /\ mu.writer = p
                /\ mu.readers = {}
    /\ \A s \in DOMAIN streams :
          streams[s].closes > 0 => \A l \in DOMAIN hub : s \notin hub[l]

\* C35 happens: an Unsubscribe has closed a client of a lobby, and a
\* Broadcast for that lobby is in its loop under the shared lock.
C35_Witness ==
    \E p, q \in Procs : \E s \in Clients :
        /\ procs[p].pc = "bcast_send"
        /\ p \in mu.readers
        /\ procs[q].pc = "done"
        /\ procs[q].op = "Unsubscribe"
        /\ procs[q].target = s
        /\ procs[q].lobby = procs[p].lobby
        /\ streams[s].closes = 1

\* C36: a channel is closed at most once however the Unsubscribe calls for
\* it interleave, and the call that closes it has found it in the set,
\* where it still is, not yet closed.
C36_ClosedAtMostOnce ==
    /\ \A s \in DOMAIN streams : streams[s].closes <= 1
    /\ \A p \in Procs :
          procs[p].pc = "unsub_close"
          => /\ procs[p].target \in Hub_Clients(procs[p].lobby)
             /\ streams[procs[p].target].closes = 0

\* C36 happens: two goroutines have called Unsubscribe for the same lobby
\* and client, both have returned, and the channel was closed once.
C36_Witness ==
    \E s \in Clients :
        /\ \A p \in Procs :
              /\ procs[p].pc = "done"
              /\ procs[p].op = "Unsubscribe"
              /\ procs[p].target = s
        /\ streams[s].closes = 1
        /\ streams[s].unsubs = 1

\* C39: an event a client receives is an event of the lobby the client is
\* registered under, and the client is in that lobby's set at that moment.
C39_OnlyToOwnLobby ==
    [][\A s \in DOMAIN streams :
         streams'[s].received # streams[s].received
         => LET e == streams'[s].received[Len(streams'[s].received)]
            IN /\ e.lobby = streams[s].lobby
               /\ s \in Hub_Clients(e.lobby)]_vars

\* C39 happens: two clients registered under different lobbies were both
\* receiving; a Broadcast for one lobby has returned; its client has the
\* event and the other client has none.
C39_Witness ==
    \E s, r \in Clients : \E p \in Procs :
        /\ streams[s].lobby # streams[r].lobby
        /\ s \in Hub_Clients(streams[s].lobby)
        /\ r \in Hub_Clients(streams[r].lobby)
        /\ procs[p].pc = "done"
        /\ procs[p].op = "Broadcast"
        /\ procs[p].lobby = streams[s].lobby
        /\ Len(streams[s].received) = 1
        /\ streams[r].state = "waiting"
        /\ streams[r].received = <<>>

\* C37: when the members of a lobby have all called LeaveLobby, in any
\* interleaving, and the calls have all returned with success, leaving the
\* lobby without members, the lobby is deleted.
C37_AllLeftDeletesLobby ==
    \A l \in LobbyIDs :
        (/\ \A p \in Procs :
               /\ procs[p].pc = "done"
               /\ procs[p].op = "LeaveLobby"
               /\ procs[p].resp = "OK"
               /\ procs[p].lobby = l
         /\ Members(l) = {})
        => ~Live(l)

\* C38: a success response means the change was written: a JoinLobby,
\* LeaveLobby or KickMember that has answered 200 is not one whose
\* current_lobby_id update or whose commit the database refused.
C38_SuccessMeansPersisted ==
    \A p \in Procs :
        (/\ procs[p].pc = "done"
         /\ procs[p].op \in {"JoinLobby", "LeaveLobby", "KickMember"}
         /\ procs[p].resp = "OK")
        => ~procs[p].failed

\* C40: a LeaveLobby that answers 200 has broadcast one user_left, of the
\* leaving user, as its last event, after at most one other event, which is
\* the lobby_deleted or the host_changed of its lobby (never both); and a
\* commit that deletes the lobby, or that changes its host, is the commit of
\* a request that has already broadcast lobby_deleted, or host_changed
\* naming the new host, and nothing else.
C40_LeaveEvents ==
    [][\A p \in Procs :
         /\ (/\ procs[p].pc # "done" /\ procs'[p].pc = "done"
             /\ procs'[p].op = "LeaveLobby" /\ procs'[p].resp = "OK")
            => LET sent == procs'[p].sent
                   n == Len(sent)
                   l == procs'[p].lobby
                   u == procs'[p].user
               IN /\ n \in {1, 2}
                  /\ sent[n] = Event(l, "user_left", u)
                  /\ n = 2 => sent[1] \in
                        {Event(l, "lobby_deleted", NoUser)} \cup
                        {Event(l, "host_changed", v) : v \in Users \ {u}}
         /\ (procs[p].pc = "leave_commit" /\ procs'[p] # procs[p])
            => LET l == procs[p].lobby
               IN /\ (Live(l) /\ ~Live(l)')
                     => procs[p].sent = <<Event(l, "lobby_deleted", NoUser)>>
                  /\ (Live(l)' /\ lobbies'[l].host # lobbies[l].host)
                     => procs[p].sent =
                           <<Event(l, "host_changed", lobbies'[l].host)>>]_vars

\* C40 happens: the host left a lobby of two (host_changed, then user_left)
\* and then the other member left as the last one (lobby_deleted, then
\* user_left); both calls answered 200 and the lobby is deleted.
C40_Witness ==
    \E p, q \in Procs :
        /\ procs[p].pc = "done" /\ procs[q].pc = "done"
        /\ procs[p].op = "LeaveLobby" /\ procs[q].op = "LeaveLobby"
        /\ procs[p].resp = "OK" /\ procs[q].resp = "OK"
        /\ procs[p].lobby = procs[q].lobby
        /\ ~Live(procs[p].lobby)
        /\ procs[p].sent =
              <<Event(procs[p].lobby, "host_changed", procs[q].user),
                Event(procs[p].lobby, "user_left", procs[p].user)>>
        /\ procs[q].sent =
              <<Event(procs[q].lobby, "lobby_deleted", NoUser),
                Event(procs[q].lobby, "user_left", procs[q].user)>>

====
